---------------------------- MODULE Spec2Model ----------------------------
(***************************************************************************)
(* Transactional outbox of the identity-access service: the outbox relay   *)
(* (internal/adapters/outbox/relay.go), the writer side                    *)
(* (SQLRepository.CreateParent, RegistrationService.RegisterParent) and    *)
(* the circuit breaker settings (config.NewCircuitBreaker).                *)
(***************************************************************************)
EXTENDS Integers, Sequences, FiniteSets, TLC

(***************************************************************************)
(* Bounds of the model.                                                    *)
(***************************************************************************)
MaxRows == 2
MaxFaults == 3
MaxParents == 2
MaxAttempts == 5
MaxTokens == 2

(***************************************************************************)
(* Program constants.                                                      *)
(***************************************************************************)
maxEventsPerBatch == 100
MaxRequests == 3
TripThreshold == 3

Relays == {"r1", "r2"}
RowIds == 1..MaxRows
\* notification.Extra: the id of a row, or 0, an id that no row of outbox_events carries
NotifyIds == 0..MaxRows
\* uuid.NewString(): the n-th uuid
Uuid(n) == <<"uuid", n>>
\* aggregate_id of the rows the relay tests insert
TestParentId == <<"test-parent", 123>>

VARIABLES
    env,        \* BABY_QUEUE_NAME of the process environment
    outbox,     \* outbox_events, committed rows in created_at order; id = index
    published,  \* broker: for each row id, publishes that succeeded
    attempts,   \* broker: for each row id, calls of PublishBabyCreated
    sent,       \* broker: for each row id, calls of rmq.ch.PublishWithContext
    cb,         \* rmq.cb of the broker of each relay process
    body,       \* broker: for each row id, the Body of the message published for it
    marks,      \* for each row id, committed UPDATEs that set processed_at
    pc,         \* position of each relay worker
    tx,         \* open transaction of each relay worker
    dbCB,       \* Relay.dbCB of each relay
    isHealthy,  \* Relay.isHealthy of each relay
    lastProcessed, \* Relay.lastProcessed of each relay, as time.Since sees it:
                \* "recent" (within healthCheckStaleThreshold) or "stale"
    health,     \* the last answer of GET /health of the relay process: <<code, status>>
    ret,        \* error value the last processEventByID / processUnprocessedEvents returned
    main,       \* main of the relay process: at "select", "shutdown" or "exit", and the
                \* case by which it left its select: "signal" or "error"
    exit,       \* exit status of the relay process, "none" while it runs
    faults,     \* failures of DB and broker injected so far
    users,      \* table users (committed)
    parents,    \* table parents (committed)
    wpc,        \* position of the CreateParent call in progress
    wtx,        \* the open CreateParent transaction: its parent and the rows it wrote
    wret,       \* error value the last RegisterParent returned
    uuids,      \* calls of uuid.NewString() so far
    jwts,       \* the tokens Authenticate has issued; the jti of a token is its index
    expiredJwts, \* the jtis of the issued tokens that are past their exp
    blacklist,  \* Redis: the jtis j with a key "blacklist:"+j
    activeSession, \* Redis: for each user id the JTI under "active_session:"+id, 0 if none
    status,     \* parents.status of each parent
    redisCB,    \* AuthMiddleware.redisCB
    response,   \* the last request to a handler behind RequireRole and its answer
    loggedOut,  \* the jtis of the tokens for which Logout returned nil before their exp
    discharged  \* the parents for which DischargeParent returned nil

relayVars == <<pc, tx, dbCB, isHealthy, lastProcessed, health, ret>>
brokerVars == <<published, attempts, sent, body, cb>>
mainVars == <<main, exit>>
writerVars == <<users, parents, wpc, wtx, wret, uuids>>
authVars == <<jwts, expiredJwts, blacklist, activeSession, status, redisCB, response,
              loggedOut, discharged>>
vars == <<env, jwts, expiredJwts, blacklist, activeSession, status, redisCB, response,
          loggedOut, discharged, outbox, published, attempts, sent, body, cb, marks, pc, tx, dbCB, isHealthy,
          lastProcessed, health, ret, main, exit,
          faults, users, parents, wpc, wtx, wret, uuids>>

(***************************************************************************)
(* JSON values stored in outbox_events.payload (JSONB) and the decoding    *)
(* of encoding/json into ports.CreateBabyEvent.                            *)
(***************************************************************************)
JsonArray == [kind |-> "array", s |-> "", m |-> {}]
JsonNull == [kind |-> "null", s |-> "", m |-> {}]
\* no message
NoBody == [kind |-> "none", s |-> "", m |-> {}]
\* m: the members of the object, triples <<key, kind of the value, string value>>
JsonObject(m) == [kind |-> "object", s |-> "", m |-> m]

CreateBabyEvent(u, l, n) == [user_id |-> u, last_name |-> l, room_number |-> n]

EventFields == {"user_id", "last_name", "room_number"}

\* json.Unmarshal(payload, &evt) with evt ports.CreateBabyEvent
FieldError(p, f) == \E t \in p.m : t[1] = f /\ t[2] \notin {"string", "null"}
FieldValue_Absent(p, f) == ""
FieldValue(p, f) ==
    IF \E t \in p.m : t[1] = f /\ t[2] = "string"
    THEN (CHOOSE t \in p.m : t[1] = f /\ t[2] = "string")[3]
    ELSE ""
Unmarshal(p) ==
    IF p.kind = "null" THEN [err |-> FALSE, evt |-> CreateBabyEvent("", "", "")]
    ELSE IF p.kind = "object"
    THEN [err |-> \E f \in EventFields : FieldError(p, f),
          evt |-> CreateBabyEvent(FieldValue(p, "user_id"), FieldValue(p, "last_name"),
                                  FieldValue(p, "room_number"))]
    ELSE [err |-> TRUE, evt |-> CreateBabyEvent("", "", "")]

\* json.Marshal(event) of RegisterParent / of the tests that insert outbox rows
MarshalEvent(evt) ==
    JsonObject({<<"user_id", "string", evt.user_id>>,
                <<"last_name", "string", evt.last_name>>,
                <<"room_number", "string", evt.room_number>>})

(***************************************************************************)
(* Environment.                                                            *)
(***************************************************************************)
Unset == "<unset>"
Getenv(v) == IF v = Unset THEN "" ELSE v

\* eventQueue := os.Getenv("BABY_QUEUE_NAME")
eventQueue == Getenv(env)

\* LoadRelayConfig().BabyQueueName: BABY_QUEUE_NAME, "babies" when it is empty
BabyQueueName == IF Getenv(env) = "" THEN "babies" ELSE Getenv(env)

\* rmq.queueName of the broker main constructs: NewRabbitMQBroker(cfg.RabbitMQURL, cfg.BabyQueueName)
queueName == BabyQueueName

(***************************************************************************)
(* Circuit breaker (gobreaker with the settings of NewCircuitBreaker).     *)
(***************************************************************************)
\* state, Counts.ConsecutiveFailures, Counts.ConsecutiveSuccesses, and whether Interval
\* has ended since the request in progress began (a new generation); streak: the
\* failed requests the closed breaker has let through since the last one that succeeded
CBClosed == [state |-> "closed", fails |-> 0, succ |-> 0, expired |-> FALSE, streak |-> 0]
CBOpen == [state |-> "open", fails |-> 0, succ |-> 0, expired |-> FALSE, streak |-> 0]
CBHalfOpen == [state |-> "half-open", fails |-> 0, succ |-> 0, expired |-> FALSE, streak |-> 0]

ReadyToTrip_Never(consecutiveFailures) == FALSE
\* ReadyToTrip: counts.ConsecutiveFailures >= 3
ReadyToTrip(consecutiveFailures) == consecutiveFailures >= TripThreshold

\* the failed requests in a row
Streak(b, ok) == IF ok THEN 0 ELSE b.streak + 1

CBAfter_CloseOnFirst(b, ok) ==
    IF b.state = "closed"
    THEN IF b.expired THEN [CBClosed EXCEPT !.streak = Streak(b, ok)]
         ELSE IF ok THEN [b EXCEPT !.fails = 0, !.streak = 0]
         ELSE IF ReadyToTrip(b.fails + 1) THEN [CBOpen EXCEPT !.streak = Streak(b, ok)]
         ELSE [b EXCEPT !.fails = @ + 1, !.streak = Streak(b, ok)]
    ELSE IF ok THEN CBClosed ELSE CBOpen

\* the breaker after a request that it let through ended with (ok) or without success
\* (afterRequest: the result of a request of an earlier generation is dropped)
CBAfter(b, ok) ==
    IF b.state = "closed"
    THEN IF b.expired THEN [CBClosed EXCEPT !.streak = Streak(b, ok)]
         ELSE IF ok THEN [b EXCEPT !.fails = 0, !.streak = 0]
         ELSE IF ReadyToTrip(b.fails + 1) THEN [CBOpen EXCEPT !.streak = Streak(b, ok)]
         ELSE [b EXCEPT !.fails = @ + 1, !.streak = Streak(b, ok)]
    ELSE IF ok
         THEN IF b.succ + 1 >= MaxRequests THEN CBClosed
              ELSE [b EXCEPT !.succ = @ + 1]
         ELSE CBOpen

CBAllows_Always(b) == TRUE
\* beforeRequest: a request is let through unless the breaker is open (ErrOpenState)
CBAllows(b) == b.state # "open"

(***************************************************************************)
(* The outbox table.                                                       *)
(***************************************************************************)
\* ctxDone: the ctx of the call is past its deadline
NoTx == [held |-> {}, upd |-> {}, recs |-> <<>>, aborted |-> FALSE, ctxDone |-> FALSE]

Ids == 1..Len(outbox)
LockedByOther(r, id) == \E o \in Relays \ {r} : id \in tx[o].held
Matches_Any(id) == TRUE
\* if eventType == eventQueue
Matches(id) == outbox[id].event_type = eventQueue
ParseOk(id) == ~Unmarshal(outbox[id].payload).err

IsPoison_Never(id) == FALSE
\* eventType == eventQueue and json.Unmarshal(payload, &evt) returns an error
IsPoison(id) == Matches(id) /\ Unmarshal(outbox[id].payload).err

RECURSIVE Ascending_Descending(_)
Ascending_Descending(S) ==
    IF S = {} THEN <<>>
    ELSE LET mid == CHOOSE x \in S : Cardinality({y \in S : y < x}) = Cardinality(S) \div 2
         IN Ascending_Descending({y \in S : y > mid}) \o <<mid>>
               \o Ascending_Descending({y \in S : y < mid})

RECURSIVE Ascending(_)
\* the ids of S in ORDER BY created_at (built around the middle id, so that the
\* recursion is no deeper than the logarithm of the number of rows)
Ascending(S) ==
    IF S = {} THEN <<>>
    ELSE LET mid == CHOOSE x \in S : Cardinality({y \in S : y < x}) = Cardinality(S) \div 2
         IN Ascending({y \in S : y < mid}) \o <<mid>> \o Ascending({y \in S : y > mid})

Limit_All(s, n) == s
\* LIMIT n
Limit(s, n) == IF Len(s) <= n THEN s ELSE SubSeq(s, 1, n)

SelectOne_NoLock(r, id) ==
    IF id \in Ids /\ ~outbox[id].processed THEN {id} ELSE {}
SelectOne_AnyRow(r, id) ==
    IF id \in Ids /\ ~LockedByOther(r, id) THEN {id} ELSE {}
\* SELECT ... WHERE id = $1 AND processed_at IS NULL FOR UPDATE SKIP LOCKED
SelectOne(r, id) ==
    IF id \in Ids /\ ~outbox[id].processed /\ ~LockedByOther(r, id) THEN {id} ELSE {}

SelectBatch_NoLock(r) ==
    Limit(Ascending({id \in Ids : ~outbox[id].processed}), maxEventsPerBatch)
\* SELECT ... WHERE processed_at IS NULL ORDER BY created_at LIMIT $1 FOR UPDATE SKIP LOCKED
SelectBatch(r) ==
    Limit(Ascending({id \in Ids : ~outbox[id].processed /\ ~LockedByOther(r, id)}),
          maxEventsPerBatch)

\* the rows the writers of outbox_events insert: <<event_type, payload>>
RowPool ==
    {<<"babies", MarshalEvent(CreateBabyEvent("u1", "Doe", "101"))>>,
     <<"babies", JsonArray>>,
     <<"other", MarshalEvent(CreateBabyEvent("u1", "Doe", "101"))>>}

\* rows of the relay's event type with the JSON values a writer can store in payload:
\* {}, the three members, a further member, a null member, null, a member of
\* another type, an array
PayloadPool ==
    {<<"babies", JsonObject({})>>,
     <<"babies", MarshalEvent(CreateBabyEvent("u1", "Doe", "101"))>>,
     <<"babies", JsonObject({<<"user_id", "string", "u1">>, <<"last_name", "string", "Doe">>,
                             <<"room_number", "string", "101">>, <<"first_name", "string", "Jo">>})>>,
     <<"babies", JsonObject({<<"user_id", "null", "">>, <<"last_name", "string", "Doe">>})>>,
     <<"babies", JsonNull>>,
     <<"babies", JsonObject({<<"user_id", "string", "u1">>, <<"room_number", "number", "101">>})>>,
     <<"babies", JsonArray>>}

\* INSERT INTO outbox_events (id, aggregate_type, aggregate_id, event_type, payload, created_at)
InsertOutboxEvent(t, p) ==
    /\ Len(outbox) < MaxRows
    /\ outbox' = Append(outbox, [aggregate_type |-> "parent", aggregate_id |-> TestParentId,
                                 event_type |-> t, payload |-> p, processed |-> FALSE])
    /\ UNCHANGED <<env, authVars, mainVars, brokerVars, marks, relayVars, faults, writerVars>>

(***************************************************************************)
(* Failures of the database and of the broker.                             *)
(***************************************************************************)
Fault == faults < MaxFaults /\ faults' = faults + 1
NoFault == faults' = faults

(***************************************************************************)
(* The relay: Relay.Start, processEventByID, processUnprocessedEvents.     *)
(***************************************************************************)
ReturnFrom_Propagate(r, e) ==
    /\ tx' = [tx EXCEPT ![r] = NoTx]
    /\ dbCB' = [dbCB EXCEPT ![r] = CBAfter(@, e = "nil")]
    /\ ret' = [ret EXCEPT ![r] = e]
    /\ pc' = [pc EXCEPT ![r] = IF e = "nil" THEN "loop" ELSE "exited"]
\* the closure given to dbCB.Execute returns e; the deferred tx.Rollback() runs; Start
\* logs the error, if any, and goes on with its loop
ReturnFrom(r, e) ==
    /\ tx' = [tx EXCEPT ![r] = NoTx]
    /\ dbCB' = [dbCB EXCEPT ![r] = CBAfter(@, e = "nil")]
    /\ ret' = [ret EXCEPT ![r] = e]
    /\ pc' = [pc EXCEPT ![r] = "loop"]

\* the errors PublishBabyCreated returns: ctx.Err() of a ctx past its deadline,
\* gobreaker.ErrOpenState of rmq.cb, the error of the broker
PublishErrors == {"deadline", "open", "publish"}

PublishBabyCreated_NoDeadlineCheck(r, id, evt, e) ==
    /\ attempts' = [attempts EXCEPT ![id] = @ + 1]
    /\ sent' = [sent EXCEPT ![id] = @ + 1]
    /\ published' = [published EXCEPT ![id] = IF e = "nil" THEN @ + 1 ELSE @]
    /\ body' = [body EXCEPT ![id] = IF e = "nil" THEN MarshalEvent(evt) ELSE @]
    /\ cb' = [cb EXCEPT ![r] = CBAfter(@, e = "nil")]
\* r.publisher.PublishBabyCreated(ctx, evt) of the relay r for the row id, returning e:
\* body, err := json.Marshal(evt), the check of the deadline of ctx, then rmq.cb.Execute
\* around rmq.ch.PublishWithContext of amqp.Publishing{Body: body}
PublishBabyCreated(r, id, evt, e) ==
    /\ attempts' = [attempts EXCEPT ![id] = @ + 1]
    /\ IF e = "deadline"
       THEN UNCHANGED <<published, sent, body, cb>>
       ELSE IF ~CBAllows(cb[r])
       THEN /\ e = "open"
            /\ attempts[id] < MaxAttempts
            /\ UNCHANGED <<published, sent, body, cb>>
       ELSE /\ e \in {"nil", "publish"}
            /\ sent' = [sent EXCEPT ![id] = @ + 1]
            /\ published' = [published EXCEPT ![id] = IF e = "nil" THEN @ + 1 ELSE @]
            /\ body' = [body EXCEPT ![id] = IF e = "nil" THEN MarshalEvent(evt) ELSE @]
            /\ cb' = [cb EXCEPT ![r] = CBAfter(@, e = "nil")]

\* UPDATE outbox_events SET processed_at = NOW() WHERE id = $1, inside the transaction t
ExecUpdate(t, id, ok) ==
    IF ok /\ ~t.aborted THEN [t EXCEPT !.upd = @ \cup {id}]
    ELSE [t EXCEPT !.aborted = TRUE]

\* tx.Commit() of a transaction that is not aborted
ApplyCommit(r) ==
    /\ outbox' = [id \in Ids |-> IF id \in tx[r].upd
                                  THEN [outbox[id] EXCEPT !.processed = TRUE]
                                  ELSE outbox[id]]
    /\ marks' = [id \in DOMAIN marks |-> IF id \in tx[r].upd THEN marks[id] + 1 ELSE marks[id]]

\* dbCB.Execute while the breaker is open: gobreaker.ErrOpenState, the closure does not run
ShortCircuit(r) ==
    /\ ~CBAllows(dbCB[r])
    /\ ret' = [ret EXCEPT ![r] = "open"]
    /\ pc' = [pc EXCEPT ![r] = "loop"]
    /\ UNCHANGED <<tx, dbCB>>
    /\ UNCHANGED <<env, authVars, mainVars, outbox, brokerVars, marks, isHealthy, lastProcessed, health, faults, writerVars>>

\* BeginTx or the SELECT fails
OneDbFails(r) ==
    /\ CBAllows(dbCB[r])
    /\ Fault
    /\ ReturnFrom(r, "db")
    /\ UNCHANGED <<env, authVars, mainVars, outbox, brokerVars, marks, isHealthy, lastProcessed, health, writerVars>>

\* sql.ErrNoRows: return nil, nil
OneNoRows(r, id) ==
    /\ CBAllows(dbCB[r])
    /\ SelectOne(r, id) = {}
    /\ ReturnFrom(r, "nil")
    /\ lastProcessed' = [lastProcessed EXCEPT ![r] = "recent"]
    /\ isHealthy' = [isHealthy EXCEPT ![r] = TRUE]
    /\ UNCHANGED <<env, authVars, mainVars, outbox, brokerVars, marks, health, faults, writerVars>>

\* json.Unmarshal fails: UPDATE with its error dropped, then tx.Commit()
OnePoison(r, id) ==
    /\ CBAllows(dbCB[r])
    /\ SelectOne(r, id) = {id}
    /\ IsPoison(id)
    /\ \E ok \in BOOLEAN :
          /\ IF ok THEN NoFault ELSE Fault
          /\ tx' = [tx EXCEPT ![r] = ExecUpdate([NoTx EXCEPT !.held = {id}], id, ok)]
    /\ pc' = [pc EXCEPT ![r] = "one"]
    /\ UNCHANGED <<env, authVars, mainVars, outbox, brokerVars, marks, dbCB, isHealthy, lastProcessed, health, ret, writerVars>>

OneOnPublishError_Continue(r, id, e) ==
    /\ tx' = [tx EXCEPT ![r] = ExecUpdate([NoTx EXCEPT !.held = {id}], id, TRUE)]
    /\ pc' = [pc EXCEPT ![r] = "one"]
    /\ UNCHANGED <<dbCB, ret>>
\* if err := r.publisher.PublishBabyCreated(ctx, evt); err != nil { return nil, err }
OneOnPublishError(r, id, e) == ReturnFrom(r, e)

\* PublishBabyCreated returns an error: rmq.cb is open or the broker fails
OnePublishFails(r, id) ==
    /\ CBAllows(dbCB[r])
    /\ SelectOne(r, id) = {id}
    /\ Matches(id) /\ ~IsPoison(id)
    /\ \E e \in PublishErrors \ {"deadline"} :
          /\ IF e = "open" THEN NoFault ELSE Fault
          /\ PublishBabyCreated(r, id, Unmarshal(outbox[id].payload).evt, e)
          /\ OneOnPublishError(r, id, e)
    /\ UNCHANGED <<env, authVars, mainVars, outbox, marks, isHealthy, lastProcessed, health, writerVars>>

\* the row is published (when its event_type is the queue's) and then updated
OnePublished(r, id) ==
    /\ CBAllows(dbCB[r])
    /\ SelectOne(r, id) = {id}
    /\ IF Matches(id)
       THEN ~IsPoison(id) /\ PublishBabyCreated(r, id, Unmarshal(outbox[id].payload).evt, "nil")
       ELSE UNCHANGED brokerVars
    /\ \/ /\ NoFault
          /\ tx' = [tx EXCEPT ![r] = ExecUpdate([NoTx EXCEPT !.held = {id}], id, TRUE)]
          /\ pc' = [pc EXCEPT ![r] = "one"]
          /\ UNCHANGED <<dbCB, ret>>
       \/ /\ Fault
          /\ ReturnFrom(r, "db")
    /\ UNCHANGED <<env, authVars, mainVars, outbox, marks, isHealthy, lastProcessed, health, writerVars>>

\* a notification for the row id whose processEventByID comes to PublishBabyCreated
\* when eventProcessTimeout has passed: PublishBabyCreated returns ctx.Err()
OneDeadline(r, id) ==
    /\ pc[r] = "loop"
    /\ CBAllows(dbCB[r])
    /\ SelectOne(r, id) = {id}
    /\ Matches(id) /\ ~IsPoison(id)
    /\ Fault
    /\ PublishBabyCreated(r, id, Unmarshal(outbox[id].payload).evt, "deadline")
    /\ OneOnPublishError(r, id, "deadline")
    /\ UNCHANGED <<env, authVars, mainVars, outbox, marks, isHealthy, lastProcessed, health, writerVars>>

\* case notification := <-r.listener.Notify with a notification for the row id
Notification(r, id) ==
    /\ pc[r] = "loop"
    /\ \/ /\ ShortCircuit(r)
       \/ OneDbFails(r)
       \/ OneNoRows(r, id)
       \/ OnePoison(r, id)
       \/ OnePublishFails(r, id)
       \/ OnePublished(r, id)

\* return nil, tx.Commit() of processEventByID
OneCommit(r) ==
    /\ pc[r] = "one"
    /\ \/ /\ ~tx[r].aborted
          /\ NoFault
          /\ ApplyCommit(r)
          /\ ReturnFrom(r, "nil")
          /\ lastProcessed' = [lastProcessed EXCEPT ![r] = "recent"]
          /\ isHealthy' = [isHealthy EXCEPT ![r] = TRUE]
       \/ /\ IF tx[r].aborted THEN NoFault ELSE Fault
          /\ ReturnFrom(r, "db")
          /\ UNCHANGED <<outbox, marks, isHealthy, lastProcessed, health>>
    /\ UNCHANGED <<env, authVars, mainVars, brokerVars, health, writerVars>>

NilNotification_Touch(r) ==
    /\ pc[r] = "loop"
    /\ isHealthy' = [isHealthy EXCEPT ![r] = FALSE]
    /\ lastProcessed' = [lastProcessed EXCEPT ![r] = "recent"]
    /\ UNCHANGED <<env, authVars, mainVars, outbox, brokerVars, marks, pc, tx, dbCB, health, ret, faults,
                   writerVars>>
\* notification == nil
NilNotification(r) ==
    /\ pc[r] = "loop"
    /\ isHealthy' = [isHealthy EXCEPT ![r] = FALSE]
    /\ UNCHANGED <<env, authVars, mainVars, outbox, brokerVars, marks, pc, tx, dbCB, lastProcessed, health, ret, faults,
                   writerVars>>

\* processUnprocessedEvents up to the loop over the records
SweepBegin(r) ==
    \/ ShortCircuit(r)
    \/ OneDbFails(r)
    \/ /\ CBAllows(dbCB[r])
       /\ NoFault
       /\ tx' = [tx EXCEPT ![r] = [NoTx EXCEPT !.held = {SelectBatch(r)[i] : i \in 1..Len(SelectBatch(r))},
                                               !.recs = SelectBatch(r)]]
       /\ pc' = [pc EXCEPT ![r] = IF pc[r] = "init" THEN "startup" ELSE "sweep"]
       /\ UNCHANGED <<env, authVars, mainVars, outbox, brokerVars, marks, dbCB, isHealthy, lastProcessed, health, ret, writerVars>>

SweepOnPublishError_Update(t, id) == ExecUpdate(t, id, TRUE)
\* log "failed to publish event" and continue: the transaction t goes on without the UPDATE of id
SweepOnPublishError(t, id) == t

\* one iteration of for _, rec := range records
SweepRecord(r) ==
    /\ pc[r] \in {"startup", "sweep"}
    /\ tx[r].recs # <<>>
    /\ LET id == Head(tx[r].recs)
           rest == [tx[r] EXCEPT !.recs = Tail(@)]
       IN \/ /\ IsPoison(id)
             /\ \E ok \in BOOLEAN :
                   /\ IF ok \/ tx[r].aborted THEN NoFault ELSE Fault
                   /\ tx' = [tx EXCEPT ![r] = ExecUpdate(rest, id, ok)]
             /\ UNCHANGED <<brokerVars, pc, dbCB, ret>>
          \/ /\ Matches(id) /\ ~IsPoison(id)
             /\ \E e \in PublishErrors :
                   /\ tx[r].ctxDone <=> e = "deadline"
                   /\ IF e = "publish" THEN Fault ELSE NoFault
                   /\ PublishBabyCreated(r, id, Unmarshal(outbox[id].payload).evt, e)
                   /\ tx' = [tx EXCEPT ![r] = SweepOnPublishError(rest, id)]
             /\ UNCHANGED <<pc, dbCB, ret>>
          \/ /\ IF Matches(id)
                THEN /\ ~IsPoison(id) /\ ~tx[r].ctxDone
                     /\ PublishBabyCreated(r, id, Unmarshal(outbox[id].payload).evt, "nil")
                ELSE UNCHANGED brokerVars
             /\ \/ /\ ~tx[r].aborted
                   /\ NoFault
                   /\ tx' = [tx EXCEPT ![r] = ExecUpdate(rest, id, TRUE)]
                   /\ UNCHANGED <<pc, dbCB, ret>>
                \/ /\ IF tx[r].aborted THEN NoFault ELSE Fault
                   /\ ReturnFrom(r, "db")
    /\ UNCHANGED <<env, authVars, mainVars, outbox, marks, isHealthy, lastProcessed, health, writerVars>>

SweepCommit_SetsAlive(r) ==
    /\ pc[r] \in {"startup", "sweep"}
    /\ tx[r].recs = <<>>
    /\ \/ /\ ~tx[r].aborted
          /\ NoFault
          /\ ApplyCommit(r)
          /\ ReturnFrom(r, "nil")
          /\ lastProcessed' = [lastProcessed EXCEPT
                                 ![r] = IF pc[r] = "sweep" THEN "recent" ELSE @]
          /\ isHealthy' = [isHealthy EXCEPT ![r] = TRUE]
       \/ /\ IF tx[r].aborted THEN NoFault ELSE Fault
          /\ ReturnFrom(r, "db")
          /\ UNCHANGED <<outbox, marks, lastProcessed, isHealthy>>
    /\ UNCHANGED <<env, authVars, mainVars, brokerVars, health, writerVars>>
\* return nil, tx.Commit() of processUnprocessedEvents; after a periodic sweep without
\* error Start sets r.lastProcessed = time.Now(), after the startup sweep it sets nothing
SweepCommit(r) ==
    /\ pc[r] \in {"startup", "sweep"}
    /\ tx[r].recs = <<>>
    /\ \/ /\ ~tx[r].aborted
          /\ NoFault
          /\ ApplyCommit(r)
          /\ ReturnFrom(r, "nil")
          /\ lastProcessed' = [lastProcessed EXCEPT
                                 ![r] = IF pc[r] = "sweep" THEN "recent" ELSE @]
       \/ /\ IF tx[r].aborted THEN NoFault ELSE Fault
          /\ ReturnFrom(r, "db")
          /\ UNCHANGED <<outbox, marks, lastProcessed>>
    /\ UNCHANGED <<env, authVars, mainVars, brokerVars, isHealthy, health, writerVars>>

\* r.listener.Listen fails: Start returns the error
StartListenFails(r) ==
    /\ pc[r] = "init"
    /\ pc' = [pc EXCEPT ![r] = "exited"]
    /\ ret' = [ret EXCEPT ![r] = "listen"]
    /\ UNCHANGED <<env, authVars, mainVars, outbox, brokerVars, marks, tx, dbCB, isHealthy, lastProcessed, health, faults, writerVars>>

\* Start: Listen succeeds, then the startup sweep
Start(r) ==
    /\ pc[r] = "init"
    /\ SweepBegin(r)

\* case <-time.After(periodicProcessInterval)
PeriodicTick(r) ==
    /\ pc[r] = "loop"
    /\ SweepBegin(r)

\* case <-ctx.Done(): return ctx.Err()
CtxDone(r) ==
    /\ pc[r] = "loop"
    /\ pc' = [pc EXCEPT ![r] = "exited"]
    /\ ret' = [ret EXCEPT ![r] = "canceled"]
    /\ UNCHANGED <<env, authVars, mainVars, outbox, brokerVars, marks, tx, dbCB, isHealthy, lastProcessed, health, faults, writerVars>>

\* the ctx of Start is cancelled
Cancelled == main.at = "shutdown"

Cancel_NoRollback(r) ==
    /\ main.at = "select"
    /\ pc[r] \in {"loop", "one", "startup", "sweep"}
    /\ main' = [at |-> "shutdown", by |-> "signal"]
    /\ UNCHANGED <<env, authVars, outbox, brokerVars, marks, pc, tx, dbCB, isHealthy, lastProcessed, health, ret, exit, faults, writerVars>>
\* main: case sig := <-sigChan: cancel() while the worker is in its loop or in a call:
\* the ctx of a call in progress, derived from the ctx of Start, is done with it, and
\* database/sql rolls back the transaction that BeginTx began with it
Cancel(r) ==
    /\ main.at = "select"
    /\ pc[r] \in {"loop", "one", "startup", "sweep"}
    /\ main' = [at |-> "shutdown", by |-> "signal"]
    /\ tx' = [tx EXCEPT ![r].aborted = pc[r] # "loop"]
    /\ UNCHANGED <<env, authVars, outbox, brokerVars, marks, pc, dbCB, isHealthy, lastProcessed, health, ret, exit, faults, writerVars>>

\* a case of the select other than ctx.Done() taken after the cancel: BeginTx of
\* processEventByID or of processUnprocessedEvents returns the error of the ctx,
\* unless the breaker is open
CancelledCall(r) ==
    /\ Cancelled
    /\ pc[r] = "loop"
    /\ \/ ShortCircuit(r)
       \/ /\ CBAllows(dbCB[r])
          /\ NoFault
          /\ ReturnFrom(r, "db")
          /\ UNCHANGED <<env, authVars, mainVars, outbox, brokerVars, marks, isHealthy, lastProcessed, health, writerVars>>

\* Relay.IsHealthy
IsHealthy(r) == isHealthy[r]

IsReady_NoStaleCheck(r) ==
    IF dbCB[r].state = "open" THEN FALSE
    ELSE isHealthy[r]
\* Relay.IsReady
IsReady(r) ==
    IF dbCB[r].state = "open" THEN FALSE
    ELSE IF lastProcessed[r] = "stale" THEN FALSE
    ELSE isHealthy[r]

NoAnswer == <<0, "">>
StatusOK == 200
StatusServiceUnavailable == 503

HealthRequest_AlwaysUp(r) ==
    /\ health' = <<StatusOK, "UP">>
    /\ UNCHANGED <<env, authVars, mainVars, outbox, brokerVars, marks, pc, tx, dbCB, isHealthy, lastProcessed, ret,
                   faults, writerVars>>
\* the handler of GET /health of the relay process
HealthRequest(r) ==
    /\ health' = IF ~IsHealthy(r) THEN <<StatusServiceUnavailable, "DOWN">>
                 ELSE <<StatusOK, "UP">>
    /\ UNCHANGED <<env, authVars, mainVars, outbox, brokerVars, marks, pc, tx, dbCB, isHealthy, lastProcessed, ret,
                   faults, writerVars>>

\* main: case sig := <-sigChan: cancel()
Signal ==
    /\ main.at = "select"
    /\ main' = [at |-> "shutdown", by |-> "signal"]
    /\ UNCHANGED <<env, authVars, outbox, brokerVars, marks, relayVars, exit, faults, writerVars>>

\* main: case err := <-errChan: cancel(); the worker sends the error Start returned
\* unless it is nil or context.Canceled
WorkerError(r) ==
    /\ main.at = "select"
    /\ pc[r] = "exited" /\ ret[r] # "canceled"
    /\ main' = [at |-> "shutdown", by |-> "error"]
    /\ UNCHANGED <<env, authVars, outbox, brokerVars, marks, relayVars, exit, faults, writerVars>>

\* main after its select: healthServer.Shutdown, "relay: shutdown complete" and the
\* return of main, with which the deferred message_broker.Close() and db.Close() run
\* and the process ends with status 0
MainReturn ==
    /\ main.at = "shutdown"
    /\ main' = [main EXCEPT !.at = "exit"]
    /\ exit' = 0
    /\ UNCHANGED <<env, authVars, outbox, brokerVars, marks, relayVars, faults, writerVars>>

\* healthCheckStaleThreshold passes without an assignment to r.lastProcessed
\* the handler of GET /health, run by a goroutine of the HTTP server, in two steps:
\* its call of IsHealthy loads r.isHealthy, then it writes the answer. Nothing orders
\* the load with the stores of the worker: with a store between the two steps the
\* handler answers from the value before it or from the value after it.
ReadingStatuses == {"reading true", "reading false"}
IsHealthyBegin(r) ==
    /\ health[2] \notin ReadingStatuses
    /\ health' = <<0, IF isHealthy[r] THEN "reading true" ELSE "reading false">>
    /\ UNCHANGED <<env, authVars, mainVars, outbox, brokerVars, marks, pc, tx, dbCB, isHealthy, lastProcessed, ret,
                   faults, writerVars>>

IsHealthyEnd(r) ==
    /\ health[2] \in ReadingStatuses
    /\ \E v \in {health[2] = "reading true", isHealthy[r]} :
          health' = IF ~v THEN <<StatusServiceUnavailable, "DOWN">> ELSE <<StatusOK, "UP">>
    /\ UNCHANGED <<env, authVars, mainVars, outbox, brokerVars, marks, pc, tx, dbCB, isHealthy, lastProcessed, ret,
                   faults, writerVars>>

StaleThresholdPasses(r) ==
    /\ pc[r] # "exited"
    /\ lastProcessed[r] = "recent"
    /\ lastProcessed' = [lastProcessed EXCEPT ![r] = "stale"]
    /\ UNCHANGED <<env, authVars, mainVars, outbox, brokerVars, marks, pc, tx, dbCB, isHealthy, health, ret, faults,
                   writerVars>>

\* eventProcessTimeout or batchProcessTimeout passes while the call is in progress:
\* the ctx of the call is done, and database/sql rolls the transaction back
DeadlinePasses(r) ==
    /\ pc[r] \in {"one", "startup", "sweep"}
    /\ ~tx[r].ctxDone
    /\ Fault
    /\ tx' = [tx EXCEPT ![r].ctxDone = TRUE, ![r].aborted = TRUE]
    /\ UNCHANGED <<env, authVars, mainVars, outbox, brokerVars, marks, pc, dbCB, isHealthy, lastProcessed, health, ret, writerVars>>

\* Timeout of r.dbCB has passed: open -> half-open on the next look at the state
CBTimeout(r) ==
    /\ dbCB[r].state = "open"
    /\ dbCB' = [dbCB EXCEPT ![r] = CBHalfOpen]
    /\ UNCHANGED <<env, authVars, mainVars, outbox, brokerVars, marks, pc, tx, isHealthy, lastProcessed, health, ret, faults, writerVars>>

\* Timeout of rmq.cb has passed
PublisherCBTimeout(r) ==
    /\ cb[r].state = "open"
    /\ cb' = [cb EXCEPT ![r] = CBHalfOpen]
    /\ UNCHANGED <<env, authVars, mainVars, outbox, published, attempts, sent, body, marks, relayVars, faults, writerVars>>

\* Interval of r.dbCB has ended while the breaker is closed: a new generation with
\* its Counts cleared, seen by the breaker on its next look at the state; the result
\* of a request that is in progress will be dropped
CBInterval(r) ==
    /\ dbCB[r].state = "closed"
    /\ IF pc[r] \in {"one", "startup", "sweep"}
       THEN /\ ~dbCB[r].expired
            /\ dbCB' = [dbCB EXCEPT ![r].expired = TRUE]
       ELSE /\ dbCB[r].fails > 0
            /\ dbCB' = [dbCB EXCEPT ![r].fails = 0]
    /\ UNCHANGED <<env, authVars, mainVars, outbox, brokerVars, marks, pc, tx, isHealthy, lastProcessed, health, ret, faults, writerVars>>

\* Interval of rmq.cb has ended while the breaker is closed
PublisherCBInterval(r) ==
    /\ cb[r].state = "closed"
    /\ cb[r].fails > 0
    /\ cb' = [cb EXCEPT ![r].fails = 0]
    /\ UNCHANGED <<env, authVars, mainVars, outbox, published, attempts, sent, body, marks, relayVars, faults, writerVars>>

(***************************************************************************)
(* The writer: RegistrationService.RegisterParent and                      *)
(* SQLRepository.CreateParent.                                             *)
(***************************************************************************)
Emails == {"a@example.com", "b@example.com"}
Rooms == {"101", "102"}

NoParent == [id |-> <<"none", 0>>, email |-> "", last_name |-> "", room_number |-> ""]
NoWtx == [parent |-> NoParent, payload |-> JsonArray, users |-> {}, parents |-> {}]

\* the event RegisterParent marshals into outboxPayload
OutboxPayload(parent) ==
    MarshalEvent(CreateBabyEvent(parent.id, parent.last_name, parent.room_number))

\* return of CreateParent with the deferred tx.Rollback(), and of RegisterParent
WriterReturn(e) ==
    /\ wpc' = "idle"
    /\ wtx' = NoWtx
    /\ wret' = e

\* RegisterParent up to r.db.BeginTx of CreateParent
RegisterParent(email, lastName, roomNumber) ==
    /\ wpc = "idle"
    /\ uuids < MaxParents
    /\ uuids' = uuids + 1
    /\ LET parent == [id |-> Uuid(uuids + 1), email |-> email, last_name |-> lastName,
                      room_number |-> roomNumber]
       IN \/ /\ NoFault
             /\ wpc' = "user"
             /\ wtx' = [NoWtx EXCEPT !.parent = parent, !.payload = OutboxPayload(parent)]
             /\ UNCHANGED wret
          \/ /\ Fault
             /\ WriterReturn("db")
    /\ UNCHANGED <<env, authVars, mainVars, outbox, brokerVars, marks, relayVars, users, parents>>

\* INSERT INTO users; users.email is UNIQUE
InsertUser ==
    /\ wpc = "user"
    /\ \/ /\ \A u \in users : u.email # wtx.parent.email
          /\ NoFault
          /\ wtx' = [wtx EXCEPT !.users = @ \cup {[id |-> wtx.parent.id,
                                                    email |-> wtx.parent.email]}]
          /\ wpc' = "parent"
          /\ UNCHANGED wret
       \/ /\ IF \E u \in users : u.email = wtx.parent.email THEN NoFault ELSE Fault
          /\ WriterReturn("db")
    /\ UNCHANGED <<env, authVars, mainVars, outbox, brokerVars, marks, relayVars, users, parents, uuids>>

\* INSERT INTO parents
InsertParent ==
    /\ wpc = "parent"
    /\ \/ /\ NoFault
          /\ wtx' = [wtx EXCEPT !.parents = @ \cup {[user_id |-> wtx.parent.id,
                                                      room_number |-> wtx.parent.room_number]}]
          /\ wpc' = "commit"
          /\ UNCHANGED wret
       \/ /\ Fault
          /\ WriterReturn("db")
    /\ UNCHANGED <<env, authVars, mainVars, outbox, brokerVars, marks, relayVars, users, parents, uuids>>

\* tx.Commit() of CreateParent
CommitParent ==
    /\ wpc = "commit"
    /\ \/ /\ NoFault
          /\ users' = users \cup wtx.users
          /\ parents' = parents \cup wtx.parents
          /\ WriterReturn("nil")
       \/ /\ Fault
          /\ WriterReturn("db")
          /\ UNCHANGED <<users, parents>>
    /\ UNCHANGED <<env, authVars, mainVars, outbox, brokerVars, marks, relayVars, uuids>>

(***************************************************************************)
(* Tokens: AuthService.Authenticate, Logout, DischargeParent and           *)
(* AuthMiddleware.RequireRole.                                             *)
(***************************************************************************)
\* the registered users and their roles
AuthUsers == {"admin", "p1"}
Parents == {"p1"}
RoleOf(u) == IF u \in Parents THEN "PARENT" ELSE "ADMIN"

ParentActive == "Active"
ParentDischarged == "Discharged"

StatusUnauthorized == 401
StatusForbidden == 403

\* the Authorization header of a request: none, "Bearer "+token, or a string without
\* the "Bearer " prefix, which TrimPrefix leaves whole and the parser takes as the token
Headers == {"none", "bearer", "raw"}
\* the token of a header: an issued token, or 0 for a string that Authenticate never signed
Jtis == 1..Len(jwts)
\* the roles a route requires
RoleSets == {{"ADMIN"}, {"ADMIN", "PARENT"}}

NoResponse == [header |-> "none", token |-> 0, code |-> 0, next |-> FALSE]

\* tokenString := strings.TrimPrefix(authHeader, "Bearer ") and jwt.Parse with the key
\* function of RequireRole: the token is one that Authenticate signed and is not past
\* its exp
ParseValid(header, tok) ==
    header \in {"bearer", "raw"} /\ tok \in Jtis /\ tok \notin expiredJwts

\* the answer of RequireRole(roles, next) to a request
Respond(roles, header, tok, code, next) ==
    response' = [header |-> header, token |-> tok, code |-> code, next |-> next]

isBlacklisted_FailOpen(roles, header, tok) ==
    \/ /\ ~CBAllows(redisCB)
       /\ NoFault
       /\ IF jwts[tok].role \notin roles
          THEN Respond(roles, header, tok, StatusForbidden, FALSE)
          ELSE Respond(roles, header, tok, StatusOK, TRUE)
       /\ UNCHANGED redisCB
    \/ /\ CBAllows(redisCB)
       /\ \/ /\ Fault
             /\ redisCB' = CBAfter(redisCB, FALSE)
             /\ Respond(roles, header, tok, StatusServiceUnavailable, FALSE)
          \/ /\ NoFault
             /\ redisCB' = CBAfter(redisCB, TRUE)
             /\ IF tok \in blacklist
                THEN Respond(roles, header, tok, StatusUnauthorized, FALSE)
                ELSE IF jwts[tok].role \notin roles
                THEN Respond(roles, header, tok, StatusForbidden, FALSE)
                ELSE Respond(roles, header, tok, StatusOK, TRUE)

\* revoked, err := m.isBlacklisted(claims, r.Context()) and what RequireRole does with
\* it: 503 when the breaker is open or Redis fails, 401 when the key exists, and after
\* that the check of the role
isBlacklisted(roles, header, tok) ==
    \/ /\ ~CBAllows(redisCB)
       /\ NoFault
       /\ Respond(roles, header, tok, StatusServiceUnavailable, FALSE)
       /\ UNCHANGED redisCB
    \/ /\ CBAllows(redisCB)
       /\ \/ /\ Fault
             /\ redisCB' = CBAfter(redisCB, FALSE)
             /\ Respond(roles, header, tok, StatusServiceUnavailable, FALSE)
          \/ /\ NoFault
             /\ redisCB' = CBAfter(redisCB, TRUE)
             /\ IF tok \in blacklist
                THEN Respond(roles, header, tok, StatusUnauthorized, FALSE)
                ELSE IF jwts[tok].role \notin roles
                THEN Respond(roles, header, tok, StatusForbidden, FALSE)
                ELSE Respond(roles, header, tok, StatusOK, TRUE)

\* a request to a handler behind RequireRole(roles, next)
RequireRole(roles, header, tok) ==
    /\ header = "none" => tok = 0
    /\ IF header = "none" \/ ~ParseValid(header, tok)
       THEN /\ Respond(roles, header, tok, StatusUnauthorized, FALSE)
            /\ NoFault
            /\ UNCHANGED redisCB
       ELSE isBlacklisted(roles, header, tok)
    /\ UNCHANGED <<env, outbox, brokerVars, marks, relayVars, mainVars, writerVars>>
    /\ UNCHANGED <<jwts, expiredJwts, blacklist, activeSession, status, loggedOut, discharged>>

\* Timeout of redisCB has passed
RedisCBTimeout ==
    /\ redisCB.state = "open"
    /\ redisCB' = CBHalfOpen
    /\ UNCHANGED <<env, outbox, brokerVars, marks, relayVars, mainVars, faults, writerVars>>
    /\ UNCHANGED <<jwts, expiredJwts, blacklist, activeSession, status, response, loggedOut, discharged>>

\* Authenticate for the user u, whom exchangeCode, verifyIDToken and FindByEmail find
Authenticate(u) ==
    /\ \/ /\ u \in Parents /\ status[u] = ParentDischarged
          /\ NoFault
          /\ UNCHANGED <<jwts, activeSession>>
       \/ /\ u \in Parents
          /\ Fault
          /\ UNCHANGED <<jwts, activeSession>>
       \/ /\ u \in Parents => status[u] # ParentDischarged
          /\ Len(jwts) < MaxTokens
          /\ jwts' = Append(jwts, [sub |-> u, role |-> RoleOf(u)])
          /\ \/ /\ NoFault
                /\ activeSession' = [activeSession EXCEPT ![u] = Len(jwts) + 1]
             \/ /\ Fault
                /\ UNCHANGED activeSession
    /\ UNCHANGED <<env, outbox, brokerVars, marks, relayVars, mainVars, writerVars>>
    /\ UNCHANGED <<expiredJwts, blacklist, status, redisCB, response, loggedOut, discharged>>

revokeToken_NoSet(jti, ok) == blacklist
\* revokeToken: nothing for a token past its exp, else the Set of "blacklist:"+jti with
\* the time to the exp as its TTL, which succeeds (ok) or fails
revokeToken(jti, ok) ==
    IF jti \in expiredJwts \/ ~ok THEN blacklist ELSE blacklist \cup {jti}

\* Logout with the token the middleware put into the context of the request
Logout(tok) ==
    /\ tok \in Jtis
    /\ \E ok \in BOOLEAN :
          /\ IF ok THEN NoFault ELSE tok \notin expiredJwts /\ Fault
          /\ blacklist' = revokeToken(tok, ok)
          /\ loggedOut' = IF ok /\ tok \notin expiredJwts THEN loggedOut \cup {tok} ELSE loggedOut
    /\ UNCHANGED <<env, outbox, brokerVars, marks, relayVars, mainVars, writerVars>>
    /\ UNCHANGED <<jwts, expiredJwts, activeSession, status, redisCB, response, discharged>>

\* DischargeParent(parentID): Get "active_session:"+parentID, revokeToken, Del,
\* UpdateParentStatus; failAt names the statement that fails, if any
DischargeParent(parentID, failAt) ==
    /\ IF failAt = "none" THEN NoFault ELSE Fault
    /\ IF failAt = "get"
       THEN UNCHANGED <<blacklist, activeSession, status>>
       ELSE IF activeSession[parentID] = 0
       THEN failAt = "none" /\ UNCHANGED <<blacklist, activeSession, status>>
       ELSE /\ failAt = "revoke" => activeSession[parentID] \notin expiredJwts
            /\ blacklist' = revokeToken(activeSession[parentID], failAt # "revoke")
            /\ activeSession' = IF failAt \in {"revoke", "del"} THEN activeSession
                                ELSE [activeSession EXCEPT ![parentID] = 0]
            /\ status' = IF failAt = "none" THEN [status EXCEPT ![parentID] = ParentDischarged]
                          ELSE status
    /\ discharged' = IF failAt = "none" THEN discharged \cup {parentID} ELSE discharged
    /\ UNCHANGED <<env, outbox, brokerVars, marks, relayVars, mainVars, writerVars>>
    /\ UNCHANGED <<jwts, expiredJwts, redisCB, response, loggedOut>>

\* the exp of the token jti passes: Redis drops the keys whose TTL ends with it
TokenExpires(jti) ==
    /\ jti \in Jtis \ expiredJwts
    /\ expiredJwts' = expiredJwts \cup {jti}
    /\ blacklist' = blacklist \ {jti}
    /\ activeSession' = [u \in AuthUsers |-> IF activeSession[u] = jti THEN 0 ELSE activeSession[u]]
    /\ UNCHANGED <<env, outbox, brokerVars, marks, relayVars, mainVars, faults, writerVars>>
    /\ UNCHANGED <<jwts, status, redisCB, response, loggedOut, discharged>>

AuthInit ==
    /\ jwts = <<>>
    /\ expiredJwts = {}
    /\ blacklist = {}
    /\ activeSession = [u \in AuthUsers |-> 0]
    /\ status = [p \in Parents |-> ParentActive]
    /\ redisCB = CBClosed
    /\ response = NoResponse
    /\ loggedOut = {}
    /\ discharged = {}

Init ==
    /\ AuthInit
    /\ env \in {Unset, "babies"}
    /\ outbox = <<>>
    /\ published = [id \in RowIds |-> 0]
    /\ attempts = [id \in RowIds |-> 0]
    /\ sent = [id \in RowIds |-> 0]
    /\ cb = [r \in Relays |-> CBClosed]
    /\ body = [id \in RowIds |-> NoBody]
    /\ marks = [id \in RowIds |-> 0]
    /\ pc = [r \in Relays |-> "init"]
    /\ tx = [r \in Relays |-> NoTx]
    /\ dbCB = [r \in Relays |-> CBClosed]
    /\ isHealthy = [r \in Relays |-> TRUE]
    /\ lastProcessed = [r \in Relays |-> "recent"]
    /\ health = NoAnswer
    /\ main = [at |-> "select", by |-> "none"]
    /\ exit = "none"
    /\ ret = [r \in Relays |-> "none"]
    /\ faults = 0
    /\ users = {}
    /\ parents = {}
    /\ wpc = "idle"
    /\ wtx = NoWtx
    /\ wret = "none"
    /\ uuids = 0

\* the steps of a relay worker other than a nil notification and the end of ctx
RelayStep(r) ==
    \/ StartListenFails(r)
    \/ Start(r)
    \/ \E id \in NotifyIds : Notification(r, id)
    \/ OneCommit(r)
    \/ PeriodicTick(r)
    \/ SweepRecord(r)
    \/ SweepCommit(r)
    \/ CBTimeout(r)
    \/ PublisherCBTimeout(r)

Insert == \E row \in RowPool : InsertOutboxEvent(row[1], row[2])

InsertPayload == \E row \in PayloadPool : InsertOutboxEvent(row[1], row[2])

\* one relay process
Next ==
    \/ Insert
    \/ RelayStep("r1")
    \/ NilNotification("r1")
    \/ StaleThresholdPasses("r1")
    \/ HealthRequest("r1")
    \/ CtxDone("r1")

Spec == Init /\ [][Next]_vars

\* one relay process and the clocks of its two breakers: Interval ends while a breaker
\* is closed
BreakerNext ==
    \/ Insert
    \/ RelayStep("r1")
    \/ CBInterval("r1")
    \/ PublisherCBInterval("r1")

BreakerSpec == Init /\ [][BreakerNext]_vars

\* one relay process whose calls can run into the deadline of their ctx
DeadlineNext ==
    \/ Insert
    \/ RelayStep("r1")
    \/ \E id \in RowIds : OneDeadline("r1", id)
    \/ DeadlinePasses("r1")

DeadlineSpec == Init /\ [][DeadlineNext]_vars

\* one relay process and rows with any payload
PayloadNext ==
    \/ InsertPayload
    \/ RelayStep("r1")
    \/ NilNotification("r1")
    \/ CtxDone("r1")

PayloadSpec == Init /\ [][PayloadNext]_vars

\* A backlog of one row more than a batch holds, in the table of a relay that waits in
\* its event loop: the rows were committed while the notifications were lost. The
\* database and the broker are healthy: no failure is left to inject.
Backlog == maxEventsPerBatch + 1
\* the backlog of TestIntegration_RelayProcessesUnprocessedOnStartup
TestBacklog == 3

BacklogInit ==
    /\ AuthInit
    /\ env \in {Unset, "babies"}
    /\ \E n \in {TestBacklog, Backlog} :
          outbox = [i \in 1..n |->
                      [aggregate_type |-> "parent", aggregate_id |-> TestParentId,
                       event_type |-> IF i % 2 = 1 THEN "babies" ELSE "other",
                       payload |-> MarshalEvent(CreateBabyEvent("u1", "Doe", "101")),
                       processed |-> FALSE]]
    /\ published = [id \in 1..Backlog |-> 0]
    /\ attempts = [id \in 1..Backlog |-> 0]
    /\ sent = [id \in 1..Backlog |-> 0]
    /\ cb = [r \in Relays |-> CBClosed]
    /\ body = [id \in 1..Backlog |-> NoBody]
    /\ marks = [id \in 1..Backlog |-> 0]
    /\ \E at \in {"init", "loop"} : pc = [r \in Relays |-> IF r = "r1" THEN at ELSE "init"]
    /\ tx = [r \in Relays |-> NoTx]
    /\ dbCB = [r \in Relays |-> CBClosed]
    /\ isHealthy = [r \in Relays |-> TRUE]
    /\ lastProcessed = [r \in Relays |-> "recent"]
    /\ health = NoAnswer
    /\ main = [at |-> "select", by |-> "none"]
    /\ exit = "none"
    /\ ret = [r \in Relays |-> "none"]
    /\ faults = MaxFaults
    /\ users = {}
    /\ parents = {}
    /\ wpc = "idle"
    /\ wtx = NoWtx
    /\ wret = "none"
    /\ uuids = 0

\* the periodic sweeps of the relay, no notification arriving
BacklogNext ==
    \/ Start("r1")
    \/ PeriodicTick("r1")
    \/ SweepRecord("r1")
    \/ SweepCommit("r1")

BacklogSpec == BacklogInit /\ [][BacklogNext]_vars

\* The relay process: main and its worker goroutine. The worker runs until the process
\* ends; the ctx it selects on is done once main has called cancel().
WorkerStep ==
    /\ main.at # "exit"
    /\ \/ RelayStep("r1")
       \/ NilNotification("r1")
       \/ main.at = "shutdown" /\ CtxDone("r1")

SupervisorNext ==
    \/ Insert
    \/ WorkerStep
    \/ Signal
    \/ WorkerError("r1")
    \/ MainReturn

SupervisorSpec == Init /\ [][SupervisorNext]_vars

\* the worker and the goroutine that serves GET /health
RaceNext ==
    \/ Insert
    \/ RelayStep("r1")
    \/ NilNotification("r1")
    \/ IsHealthyBegin("r1")
    \/ IsHealthyEnd("r1")

RaceSpec == Init /\ [][RaceNext]_vars

(***************************************************************************)
(* The relay that main builds after NewRabbitMQBroker has failed.         *)
(***************************************************************************)
\* message_broker, err := messaging.NewRabbitMQBroker(...) with err != nil: main logs a
\* warning and hands the nil *RabbitMQBroker to outbox.NewRelay as its publisher
NoBroker == [state |-> "nil", fails |-> 0, succ |-> 0, expired |-> FALSE, streak |-> 0]

NilBrokerInit ==
    /\ AuthInit
    /\ env \in {Unset, "babies"}
    /\ outbox = <<>>
    /\ published = [id \in RowIds |-> 0]
    /\ attempts = [id \in RowIds |-> 0]
    /\ sent = [id \in RowIds |-> 0]
    /\ cb = [r \in Relays |-> NoBroker]
    /\ body = [id \in RowIds |-> NoBody]
    /\ marks = [id \in RowIds |-> 0]
    /\ pc = [r \in Relays |-> "init"]
    /\ tx = [r \in Relays |-> NoTx]
    /\ dbCB = [r \in Relays |-> CBClosed]
    /\ isHealthy = [r \in Relays |-> TRUE]
    /\ lastProcessed = [r \in Relays |-> "recent"]
    /\ health = NoAnswer
    /\ main = [at |-> "select", by |-> "none"]
    /\ exit = "none"
    /\ ret = [r \in Relays |-> "none"]
    /\ faults = 0
    /\ users = {}
    /\ parents = {}
    /\ wpc = "idle"
    /\ wtx = NoWtx
    /\ wret = "none"
    /\ uuids = 0

\* PublishBabyCreated on the nil receiver, its ctx before its deadline: json.Marshal and
\* the deadline check pass, rmq.cb dereferences nil and panics; the deferred recover of
\* r.dbCB.Execute counts a failure and panics again, nothing recovers, and the process
\* ends with status 2, its transaction rolled back by the server
PublishOnNilBroker(r, id) ==
    /\ cb[r] = NoBroker
    /\ attempts' = [attempts EXCEPT ![id] = @ + 1]
    /\ tx' = [tx EXCEPT ![r] = NoTx]
    /\ dbCB' = [dbCB EXCEPT ![r] = CBAfter(@, FALSE)]
    /\ ret' = [ret EXCEPT ![r] = "panic"]
    /\ pc' = [pc EXCEPT ![r] = "panicked"]
    /\ main' = [at |-> "exit", by |-> "panic"]
    /\ exit' = 2
    /\ NoFault
    /\ UNCHANGED <<published, sent, body, cb>>
    /\ UNCHANGED <<env, authVars, outbox, marks, isHealthy, lastProcessed, health, writerVars>>

\* processEventByID that reaches r.publisher.PublishBabyCreated(ctx, evt)
OnePanics(r, id) ==
    /\ pc[r] = "loop"
    /\ CBAllows(dbCB[r])
    /\ SelectOne(r, id) = {id}
    /\ Matches(id) /\ ~IsPoison(id)
    /\ PublishOnNilBroker(r, id)

\* processUnprocessedEvents that reaches r.publisher.PublishBabyCreated(ctx, evt)
SweepPanics(r) ==
    /\ pc[r] \in {"startup", "sweep"}
    /\ tx[r].recs # <<>>
    /\ Matches(Head(tx[r].recs)) /\ ~IsPoison(Head(tx[r].recs))
    /\ ~tx[r].ctxDone
    /\ PublishOnNilBroker(r, Head(tx[r].recs))

\* the relay with the nil publisher: the steps of the worker that do not reach a call
\* of the publisher are those of Next
NilBrokerNext ==
    \/ Insert
    \/ RelayStep("r1") /\ attempts' = attempts
    \/ \E id \in RowIds : OnePanics("r1", id)
    \/ SweepPanics("r1")

NilBrokerSpec == NilBrokerInit /\ [][NilBrokerNext]_vars

\* one relay whose ctx main cancels: until the cancel the worker runs as in Next,
\* after it the call in progress goes on with its transaction rolled back and the
\* select has ctx.Done() among its cases
CancelNext ==
    \/ Insert
    \/ ~Cancelled /\ RelayStep("r1")
    \/ Cancel("r1")
    \/ Cancelled /\ SweepRecord("r1")
    \/ Cancelled /\ SweepCommit("r1")
    \/ Cancelled /\ OneCommit("r1")
    \/ CancelledCall("r1")
    \/ Cancelled /\ CtxDone("r1")

\* the steps of a call in progress are taken, and the select, which picks among its
\* ready cases at random, takes ctx.Done() in the end
CancelSpec ==
    /\ Init
    /\ [][CancelNext]_vars
    /\ WF_vars(SweepRecord("r1"))
    /\ WF_vars(SweepCommit("r1"))
    /\ WF_vars(OneCommit("r1"))
    /\ WF_vars(Cancelled /\ CtxDone("r1"))

\* several relay replicas on one outbox table. A nil notification changes isHealthy
\* alone and a relay that has returned takes no further step, so both are left out.
ReplicaNext ==
    \/ Insert
    \/ \E r \in Relays : RelayStep(r)

ReplicaSpec == Init /\ [][ReplicaNext]_vars

\* the API process: logins, logouts, discharges, requests to the routes behind
\* RequireRole, and the passing of time
AuthNext ==
    \/ \E u \in AuthUsers : Authenticate(u)
    \/ \E tok \in 1..MaxTokens : Logout(tok)
    \/ \E p \in Parents, failAt \in {"none", "get", "revoke", "del", "update"} :
          DischargeParent(p, failAt)
    \/ \E roles \in RoleSets, header \in Headers, tok \in 0..MaxTokens :
          RequireRole(roles, header, tok)
    \/ \E jti \in 1..MaxTokens : TokenExpires(jti)
    \/ RedisCBTimeout

AuthSpec == Init /\ [][AuthNext]_vars

\* the registration of parents
WriterNext ==
    \/ \E email \in Emails, roomNumber \in Rooms : RegisterParent(email, "Doe", roomNumber)
    \/ InsertUser
    \/ InsertParent
    \/ CommitParent

WriterSpec == Init /\ [][WriterNext]_vars

\* the cases of the select of Relay.Start
SelectCase(r) ==
    \/ \E id \in NotifyIds : Notification(r, id)
    \/ NilNotification(r)
    \/ PeriodicTick(r)
    \/ CtxDone(r)

\* One relay process that keeps taking steps: a transaction in progress goes on, the
\* breaker timeout passes, and the select takes one of its ready cases. The timer of
\* time.After is created anew by every pass of the loop, so nothing makes the select
\* take the timer case while notifications keep arriving.
LiveSpec ==
    /\ Init
    /\ [][Next]_vars
    /\ WF_vars(Start("r1") \/ StartListenFails("r1"))
    /\ WF_vars(SelectCase("r1"))
    /\ WF_vars(OneCommit("r1"))
    /\ WF_vars(SweepRecord("r1"))
    /\ WF_vars(SweepCommit("r1"))
    /\ WF_vars(CBTimeout("r1"))
    /\ WF_vars(PublisherCBTimeout("r1"))

(***************************************************************************)
(* Properties.                                                             *)
(***************************************************************************)
Held(id) == \E r \in Relays : id \in tx[r].held
ValidRow(id) == Matches(id) /\ ParseOk(id)
PoisonRow(id) == Matches(id) /\ ~ParseOk(id)

\* C1: a processed row whose event_type is the relay's queue name and whose payload
\* parses has been published successfully at least once, with any number of replicas
\* and any failures of the database and the broker.
C1_ProcessedWasPublished ==
    \A id \in Ids : (ValidRow(id) /\ outbox[id].processed) => published[id] >= 1

\* a valid row processed by a sweep or a notification after failures
C1_Witness ==
    \E id \in Ids : ValidRow(id) /\ outbox[id].processed /\ published[id] >= 1 /\ faults >= 1

\* C2: a row whose processed_at is NULL and that no open transaction holds has never
\* been published successfully.
C2_UnprocessedNeverPublished ==
    \A id \in Ids : (~outbox[id].processed /\ ~Held(id)) => published[id] = 0

\* C3: if the relay keeps running (the database and the broker fail finitely often),
\* every committed row is eventually processed, whatever notifications arrive.
C3_EveryRowEventuallyProcessed ==
    ([](pc["r1"] # "exited")) =>
        \A id \in RowIds : [](id \in Ids => <>(id \in Ids /\ outbox[id].processed))

\* C4: without failures, every valid row is published at most once and marked at most
\* once by any number of replicas, is published exactly once when it is processed, and
\* is processed once the transaction that published it has ended.
C4_ExactlyOnceWithoutFailures ==
    faults = 0 =>
        \A id \in Ids :
            /\ published[id] <= 1 /\ attempts[id] = published[id]
            /\ marks[id] = (IF outbox[id].processed THEN 1 ELSE 0)
            /\ ValidRow(id) =>
                  /\ outbox[id].processed => published[id] = 1
                  /\ (published[id] = 1 /\ ~Held(id)) => outbox[id].processed

\* two replicas have each ended a call with success and two valid rows are processed
C4_Witness ==
    /\ faults = 0
    /\ Len(outbox) = 2
    /\ \A id \in Ids : ValidRow(id) /\ outbox[id].processed /\ published[id] = 1
    /\ \A r \in Relays : ret[r] = "nil" /\ pc[r] = "loop"

\* C5: no two transactions hold the same row, and at most one transaction commits the
\* UPDATE of a row.
C5_OneHolderOneWriter ==
    /\ \A r \in Relays, o \in Relays : r # o => tx[r].held \cap tx[o].held = {}
    /\ \A id \in RowIds : marks[id] <= 1

\* the sweep of r2 skipped row 1, which the process_one of r1 holds, and took row 2
C5_Witness ==
    /\ Len(outbox) = 2
    /\ pc["r1"] = "one" /\ tx["r1"].held = {1}
    /\ pc["r2"] = "startup" /\ tx["r2"].held = {2}
    /\ ~outbox[1].processed

\* C6: a processed row stays processed and no later step commits an UPDATE of it.
C6_ProcessedOnce ==
    [][\A id \in Ids : outbox[id].processed =>
            outbox'[id].processed /\ marks'[id] = marks[id]]_vars

\* a processed row, and a later transaction that holds another row
C6_Witness ==
    \E id \in Ids, r \in Relays :
        /\ outbox[id].processed /\ marks[id] = 1
        /\ tx[r].held # {} /\ id \notin tx[r].held

OutboxRowsOf(p) ==
    {id \in Ids : /\ outbox[id].aggregate_type = "parent"
                  /\ outbox[id].aggregate_id = p.user_id}

\* C7: after a successful CreateParent the parent has exactly one outbox row, of the
\* parent's id and with the payload handed to CreateParent.
C7_ParentHasOneOutboxRow ==
    \A p \in parents :
        /\ Cardinality(OutboxRowsOf(p)) = 1
        /\ \A id \in OutboxRowsOf(p) :
              outbox[id].payload = MarshalEvent(CreateBabyEvent(p.user_id, "Doe", p.room_number))

\* C8: user, parent and outbox row are persisted together or not at all.
C8_AllOrNothing ==
    /\ \A p \in parents : \E u \in users : u.id = p.user_id
    /\ \A u \in users : \E p \in parents : u.id = p.user_id
    /\ \A p \in parents : OutboxRowsOf(p) # {}
    /\ \A id \in Ids : outbox[id].aggregate_id # TestParentId =>
           \E p \in parents : p.user_id = outbox[id].aggregate_id

\* C9: when the publisher fails in process_one, process_one returns the error, its
\* transaction is rolled back and the row stays unprocessed and unlocked.
C9_PublishErrorRollsBack ==
    [][\A id \in Ids :
         (pc["r1"] = "loop" /\ attempts'[id] = attempts[id] + 1 /\ published'[id] = published[id])
            => /\ ret'["r1"] \in PublishErrors
               /\ pc'["r1"] = "loop"
               /\ tx'["r1"] = NoTx
               /\ outbox' = outbox
               /\ ~outbox'[id].processed]_vars

\* process_one has returned the publisher's error for a row that is still unprocessed
C9_Witness ==
    /\ ret["r1"] = "publish" /\ pc["r1"] = "loop"
    /\ \E id \in Ids : ValidRow(id) /\ attempts[id] = 1 /\ published[id] = 0
                       /\ ~outbox[id].processed

\* C10: the publisher is never called for a row whose payload fails to parse; the
\* transaction of process_one that holds such a row commits it as processed and
\* returns nil, and a sweep goes on after such a row with the row updated.
C10_PoisonPill ==
    /\ [](\A id \in Ids : PoisonRow(id) => attempts[id] = 0)
    /\ [][\A id \in Ids : PoisonRow(id) =>
            /\ (pc["r1"] = "one" /\ id \in tx["r1"].held /\ ~tx["r1"].aborted
                 /\ tx'["r1"] # tx["r1"] /\ faults' = faults)
                  => (ret'["r1"] = "nil" /\ pc'["r1"] = "loop" /\ outbox'[id].processed)
            /\ (pc["r1"] = "loop" /\ pc'["r1"] = "one" /\ id \in tx'["r1"].held)
                  => /\ ret'["r1"] = ret["r1"] /\ attempts' = attempts
                     /\ faults' = faults => id \in tx'["r1"].upd
            /\ (pc["r1"] \in {"startup", "sweep"} /\ tx["r1"].recs # <<>>
                 /\ Head(tx["r1"].recs) = id
                 /\ tx'["r1"] # tx["r1"])
                  => /\ pc'["r1"] = pc["r1"] /\ ret'["r1"] = ret["r1"]
                     /\ tx'["r1"].recs = Tail(tx["r1"].recs)
                     /\ (faults' = faults /\ ~tx["r1"].aborted) => id \in tx'["r1"].upd]_vars

\* a poison row marked processed, the call that did it returned nil
C10_Witness ==
    /\ ret["r1"] = "nil" /\ pc["r1"] = "loop"
    /\ \E id \in Ids : PoisonRow(id) /\ outbox[id].processed /\ attempts[id] = 0

\* the event_type of the row differs from the queue name the relay compares it with
Foreign(id) == outbox[id].event_type # eventQueue

\* C11: the publisher is never called for a row whose event_type differs from the
\* relay's queue name; process_one updates such a row and commits it as processed,
\* and a sweep updates it, goes on and commits it as processed.
C11_ForeignTypeMarkedUnpublished ==
    /\ [](\A id \in Ids : Foreign(id) => attempts[id] = 0)
    /\ [][\A id \in Ids : Foreign(id) =>
            /\ (pc["r1"] = "loop" /\ id \in tx'["r1"].held /\ tx'["r1"].recs = <<>>
                 /\ faults' = faults)
                  => (pc'["r1"] = "one" /\ id \in tx'["r1"].upd /\ attempts' = attempts)
            /\ (pc["r1"] = "one" /\ id \in tx["r1"].held /\ ~tx["r1"].aborted
                 /\ tx'["r1"] # tx["r1"] /\ faults' = faults)
                  => (ret'["r1"] = "nil" /\ pc'["r1"] = "loop" /\ outbox'[id].processed)
            /\ (pc["r1"] \in {"startup", "sweep"} /\ tx["r1"].recs # <<>>
                 /\ Head(tx["r1"].recs) = id
                 /\ ~tx["r1"].aborted /\ tx'["r1"] # tx["r1"] /\ faults' = faults)
                  => /\ pc'["r1"] = pc["r1"] /\ attempts' = attempts
                     /\ tx'["r1"].recs = Tail(tx["r1"].recs)
                     /\ id \in tx'["r1"].upd
            /\ (pc["r1"] \in {"startup", "sweep"} /\ tx["r1"].recs = <<>> /\ id \in tx["r1"].upd
                 /\ ~tx["r1"].aborted /\ tx'["r1"] # tx["r1"] /\ faults' = faults)
                  => (ret'["r1"] = "nil" /\ pc'["r1"] = "loop" /\ outbox'[id].processed)]_vars

\* a row of another event type processed by process_one and one processed by a sweep,
\* neither handed to the publisher
C11_Witness ==
    /\ env = "babies" /\ Len(outbox) = 2 /\ faults = 0
    /\ \A id \in Ids : Foreign(id) /\ outbox[id].processed /\ attempts[id] = 0
    /\ isHealthy["r1"] /\ ret["r1"] = "nil"

\* C12: for a processed row whose event_type is the queue name of the publisher and
\* whose payload parses, the event_type filter of the relay was the publisher's queue
\* name and the row has been published.
C12_FilterIsPublisherQueue ==
    \A id \in Ids :
        (outbox[id].processed /\ outbox[id].event_type = queueName /\ ParseOk(id))
            => (eventQueue = queueName /\ published[id] >= 1)

\* the strings the JSON object p has under the key k
StringsAt(p, k) == {t[3] : t \in {s \in p.m : s[1] = k /\ s[2] = "string"}}

Redelivered(r, id) ==
    \/ id \notin Ids
    \/ outbox[id].processed
    \/ \E o \in Relays \ {r} : id \in tx[o].held

\* process_one(id) by the relay r changes no row, takes no lock and calls no publisher
NoEffect(r) ==
    /\ outbox' = outbox /\ marks' = marks
    /\ attempts' = attempts /\ published' = published /\ body' = body
    /\ tx'[r] = NoTx /\ pc'[r] = "loop"

\* C14 as stated: process_one(id) for an id whose row is processed, absent or locked
\* by another transaction changes no row, calls no publisher and returns nil (when no
\* statement of it fails).
C14_RedeliveryReturnsOk ==
    [][\A r \in Relays, id \in NotifyIds :
         (Redelivered(r, id) /\ Notification(r, id) /\ faults' = faults)
            => (NoEffect(r) /\ ret'[r] = "nil")]_vars

\* C14 amended: such a process_one(id) changes no row and calls no publisher; it
\* returns nil unless the DB breaker is open or BeginTx or the SELECT fails, and then
\* it returns that error.
C14_RedeliveryIsNoOp ==
    [][\A r \in Relays, id \in NotifyIds :
         (Redelivered(r, id) /\ Notification(r, id)) =>
            /\ NoEffect(r)
            /\ ret'[r] = IF dbCB[r].state = "open" THEN "open"
                         ELSE IF faults' # faults THEN "db" ELSE "nil"]_vars

\* r1 has returned nil where every row is processed or held by r2: row 1 is processed
\* and published once, row 2 is locked by the transaction of r2
C14_Witness ==
    /\ Len(outbox) = 2
    /\ outbox[1].processed /\ ValidRow(1) /\ published[1] = 1 /\ attempts[1] = 1
    /\ ~outbox[2].processed /\ tx["r2"].held = {2}
    /\ pc["r1"] = "loop" /\ ret["r1"] = "nil" /\ tx["r1"] = NoTx
    /\ dbCB["r1"] = CBClosed

Unprocessed == {id \in Ids : ~outbox[id].processed}

ProcessErrors == {"db", "open"} \cup PublishErrors

\* C16: Start returns only from its select with the error of the cancelled ctx, or
\* before its loop with the error of Listen; after an error of process_one or of a
\* sweep (the breaker's short-circuit included) Start goes on with its loop.
C16_StartReturnsOnlyOnCancelOrListen ==
    /\ [](pc["r1"] = "exited" => ret["r1"] \in {"listen", "canceled"})
    /\ [][/\ (pc'["r1"] = "exited" /\ pc["r1"] # "exited") =>
                \/ pc["r1"] = "init" /\ ret'["r1"] = "listen"
                \/ pc["r1"] = "loop" /\ ret'["r1"] = "canceled"
          /\ ret'["r1"] \in ProcessErrors => pc'["r1"] \in {"loop", "one", "startup", "sweep"}
          /\ (ret'["r1"] \in ProcessErrors /\ pc["r1"] \in {"one", "startup", "sweep"}
                /\ pc'["r1"] # pc["r1"]) => pc'["r1"] = "loop"
          /\ pc["r1"] = "exited" => pc'["r1"] = "exited"]_vars

\* the relay waits in its loop after three failures of the startup sweep and of
\* process_one and a short-circuit by the open breaker
C16_Witness ==
    /\ pc["r1"] = "loop" /\ ret["r1"] = "open"
    /\ dbCB["r1"].state = "open" /\ faults = 3
    /\ \E id \in Ids : attempts[id] >= 1 /\ published[id] = 0

\* C17 as stated: IsReady is true exactly when the DB breaker is not open and
\* lastProcessed lies within the stale threshold.
C17_ReadyIffBreakerAndFresh ==
    IsReady("r1") <=> (dbCB["r1"].state # "open" /\ lastProcessed["r1"] = "recent")

\* C17 amended: IsReady is true exactly when the DB breaker is not open, lastProcessed
\* lies within the stale threshold and isHealthy is true.
C17_ReadyIffBreakerFreshAndHealthy ==
    IsReady("r1") <=>
        (dbCB["r1"].state # "open" /\ lastProcessed["r1"] = "recent" /\ isHealthy["r1"])

\* after a nil notification the relay is not ready although its breaker is closed and
\* lastProcessed is recent
C17_Witness ==
    /\ pc["r1"] = "loop" /\ ret["r1"] = "nil"
    /\ dbCB["r1"].state = "closed" /\ lastProcessed["r1"] = "recent" /\ ~isHealthy["r1"]
    /\ ~IsReady("r1")

\* C18: a newly constructed relay is alive, and GET /health answers 200 with status UP
\* when IsHealthy is true at the request and 503 with status DOWN when it is false.
C18_HealthReportsIsAlive ==
    /\ [](pc["r1"] = "init" => isHealthy["r1"])
    /\ [][HealthRequest("r1") =>
            /\ isHealthy["r1"] => health' = <<200, "UP">>
            /\ ~isHealthy["r1"] => health' = <<503, "DOWN">>]_vars

\* /health has answered 503 DOWN after a nil notification
C18_Witness ==
    /\ health = <<503, "DOWN">> /\ ~isHealthy["r1"] /\ pc["r1"] = "loop"

\* C19: the broker connection and the DB pool are closed and the process ends only
\* after the worker has returned from Start, hence never while the worker is inside
\* a transaction or a publish.
C19_ConnectionsClosedAfterWorker ==
    main.at = "exit" => (pc["r1"] \notin {"one", "startup", "sweep"} /\ tx["r1"] = NoTx)

\* C20: when main has left its select with a fatal error of the worker, the process
\* ends with a status other than 0.
C20_FatalErrorExitsNonZero ==
    (main.at = "exit" /\ main.by = "error") => exit # 0

\* a call of processEventByID or processUnprocessedEvents by the relay r begins
CallBegins(r) ==
    \/ \E id \in NotifyIds : Notification(r, id)
    \/ PeriodicTick(r)
    \/ Start(r)

\* C21: while r.dbCB is open, a call through it runs no statement of its closure and
\* returns ErrOpenState; while it is closed, the closure runs and the call returns the
\* closure's own error, ErrOpenState only when the closure got it from the publisher.
\* While rmq.cb is open, PublishBabyCreated does not call the broker and fails, so the
\* row is not updated; while it is closed, the broker is called exactly once.
C21_OpenShortCircuitsClosedPassesThrough ==
    [][/\ CallBegins("r1") =>
            IF dbCB["r1"].state = "open"
            THEN /\ ret'["r1"] = "open" /\ pc'["r1"] = "loop"
                 /\ tx' = tx /\ faults' = faults /\ dbCB' = dbCB
                 /\ attempts' = attempts /\ sent' = sent /\ outbox' = outbox
            ELSE /\ (dbCB["r1"].state = "closed" /\ ret'["r1"] = "open" /\ pc'["r1"] = "loop")
                      => (cb["r1"].state = "open" /\ attempts' # attempts
                          /\ dbCB'["r1"] = CBAfter(dbCB["r1"], FALSE))
                 /\ (dbCB["r1"].state = "closed" /\ faults' = faults /\ attempts' = attempts
                       /\ pc["r1"] = "loop" /\ pc'["r1"] = "loop")
                      => ret'["r1"] = "nil"
       /\ \A id \in Ids : attempts'[id] # attempts[id] =>
            IF cb["r1"].state = "open"
            THEN /\ sent' = sent /\ published' = published /\ body' = body /\ cb' = cb
                 /\ id \notin tx'["r1"].upd
                 /\ pc["r1"] = "loop" => ret'["r1"] = "open"
            ELSE /\ sent'[id] = sent[id] + 1
                 /\ cb["r1"].state = "closed" =>
                      IF published'[id] = published[id]
                      THEN /\ id \notin tx'["r1"].upd
                           /\ pc["r1"] = "loop" => ret'["r1"] = "publish"
                      ELSE /\ published'[id] = published[id] + 1
                           /\ (faults' = faults /\ ~tx["r1"].aborted) => id \in tx'["r1"].upd
                           /\ ret'["r1"] \notin PublishErrors \/ ret'["r1"] = ret["r1"]]_vars

\* process_one has returned the ErrOpenState of the publisher's open breaker through the
\* closed DB breaker, which counted it as a failure: the broker was not called
C21_Witness ==
    /\ pc["r1"] = "loop" /\ ret["r1"] = "open"
    /\ cb["r1"].state = "open" /\ dbCB["r1"].state = "closed" /\ dbCB["r1"].fails >= 1
    /\ \E id \in Ids : attempts[id] > sent[id] /\ ~outbox[id].processed

\* the breakers of the relay process r1: r.dbCB and rmq.cb
Breakers == {"db", "publisher"}
BreakerOf(k) == IF k = "db" THEN dbCB["r1"] ELSE cb["r1"]
BreakerOfNext(k) == IF k = "db" THEN dbCB'["r1"] ELSE cb'["r1"]

C23_ExpiredDeadlineNotPublished ==
    /\ [](\A id \in Ids : sent[id] <= attempts[id])
    /\ [][\A id \in Ids :
            /\ (OneDeadline("r1", id) \/ (tx["r1"].ctxDone /\ attempts'[id] # attempts[id]))
                  => /\ attempts'[id] = attempts[id] + 1
                     /\ sent' = sent /\ published' = published /\ body' = body /\ cb' = cb
                     /\ outbox' = outbox /\ id \notin tx'["r1"].upd
            /\ OneDeadline("r1", id)
                  => (ret'["r1"] = "deadline" /\ pc'["r1"] = "loop" /\ tx'["r1"] = NoTx)
            /\ (ret'["r1"] = "deadline" /\ ret["r1"] # "deadline")
                  => (sent' = sent /\ attempts' # attempts)]_vars

\* process_one has returned the error of the deadline for a row that was never handed
\* to the broker, and the publisher's breaker has counted nothing
C23_Witness ==
    /\ ret["r1"] = "deadline" /\ pc["r1"] = "loop"
    /\ cb["r1"] = CBClosed /\ dbCB["r1"].fails = 1
    /\ \E id \in Ids : ValidRow(id) /\ attempts[id] = 1 /\ sent[id] = 0 /\ ~outbox[id].processed

\* the requests to a route behind RequireRole
Requests == RoleSets \X Headers \X (0..MaxTokens)
RequestOf(q) == RequireRole(q[1], q[2], q[3])
\* the token of the request q is one that Authenticate signed and is not past its exp
ValidToken(q) == q[3] \in Jtis /\ q[3] \notin expiredJwts

\* C24: next is invoked only for a request whose Authorization header is "Bearer " and
\* a validly signed, unexpired token with a role in roles; a request without such a
\* header or token is answered 401 and one with such a token of another role 403,
\* without next (taken for the requests whose token is not revoked and whose
\* blacklist check does not fail).
C24_NextOnlyForBearerToken ==
    [][\A q \in Requests :
         (RequestOf(q) /\ faults' = faults /\ redisCB.state = "closed" /\ q[3] \notin blacklist)
           => /\ response'.next => (q[2] = "bearer" /\ ValidToken(q) /\ jwts[q[3]].role \in q[1])
              /\ (q[2] # "bearer" \/ ~ValidToken(q))
                    => (response'.code = StatusUnauthorized /\ ~response'.next)
              /\ (q[2] = "bearer" /\ ValidToken(q) /\ jwts[q[3]].role \notin q[1])
                    => (response'.code = StatusForbidden /\ ~response'.next)]_vars

\* C25: a token for which Logout has returned nil before its exp is on the blacklist
\* until its exp, whatever logins, logouts and discharges follow, and no request that
\* presents it reaches next.
C25_LoggedOutTokenRejected ==
    /\ [](\A tok \in loggedOut : tok \notin expiredJwts => tok \in blacklist)
    /\ [][\A q \in Requests :
            (RequestOf(q) /\ q[3] \in loggedOut /\ q[3] \notin expiredJwts)
              => (~response'.next /\ response'.code # StatusOK)]_vars

\* the first token, logged out, is answered 401 after a later login and logout
C25_Witness ==
    /\ Len(jwts) = 2 /\ loggedOut = {1, 2} /\ expiredJwts = {}
    /\ response = [header |-> "bearer", token |-> 1, code |-> StatusUnauthorized, next |-> FALSE]
    /\ faults = 0

\* C26: a parent for whom DischargeParent has returned nil has the status Discharged,
\* and no Authenticate for that parent issues a token.
C26_DischargedCannotLogIn ==
    /\ [](\A p \in discharged : status[p] = ParentDischarged)
    /\ [][\A p \in discharged : Authenticate(p) => jwts' = jwts]_vars

\* the relay r1 is in a sweep (startup or periodic) with rows of its batch left
InSweep == pc["r1"] \in {"startup", "sweep"}
SweepRow == Head(tx["r1"].recs)
\* the rows of the batch that the loop of the sweep has passed
SweepPassed == tx["r1"].held \ {tx["r1"].recs[i] : i \in 1..Len(tx["r1"].recs)}

\* C27: in a sweep, a failed publish of a row leaves the row without its UPDATE and
\* unprocessed, does not abort or end the transaction, and the sweep goes on with the
\* rest of the batch; a row whose publish succeeded, or that needed none, gets its
\* UPDATE; and the commit of the sweep marks exactly the rows with an UPDATE, so every
\* passed row without one is a row whose publish has failed.
C27_SweepContinuesAfterPublishError ==
    /\ [][(InSweep /\ tx["r1"].recs # <<>>
             /\ attempts'[SweepRow] = attempts[SweepRow] + 1
             /\ published'[SweepRow] = published[SweepRow])
            => /\ tx'["r1"] = [tx["r1"] EXCEPT !.recs = Tail(@)]
               /\ SweepRow \notin tx'["r1"].upd
               /\ pc' = pc /\ ret' = ret /\ dbCB' = dbCB
               /\ outbox' = outbox /\ ~outbox[SweepRow].processed]_vars
    /\ [][(InSweep /\ tx["r1"].recs # <<>> /\ tx'["r1"].recs = Tail(tx["r1"].recs)
             /\ pc' = pc /\ ~tx'["r1"].aborted
             /\ (~Matches(SweepRow) \/ published'[SweepRow] = published[SweepRow] + 1))
            => SweepRow \in tx'["r1"].upd]_vars
    /\ [][(InSweep /\ pc'["r1"] = "loop" /\ ret'["r1"] = "nil")
            => /\ tx["r1"].recs = <<>>
               /\ \A id \in Ids : outbox'[id].processed
                                    <=> (outbox[id].processed \/ id \in tx["r1"].upd)]_vars
    /\ [](InSweep /\ ~tx["r1"].aborted
            => \A id \in SweepPassed :
                  id \notin tx["r1"].upd
                    => (ValidRow(id) /\ attempts[id] > published[id] /\ ~outbox[id].processed))

\* at the end of a sweep over two rows, the publish of the first has failed and the
\* second, published after it, has its UPDATE in the transaction that is still good
C27_Witness ==
    /\ InSweep /\ tx["r1"].recs = <<>> /\ ~tx["r1"].aborted
    /\ tx["r1"].held = {1, 2} /\ tx["r1"].upd = {2}
    /\ attempts[1] = 1 /\ published[1] = 0 /\ published[2] = 1

\* the payload of the row id is a JSON object
IsJsonObject(id) == outbox[id].payload.kind = "object"
\* the payload of the row id is null, or an object whose members user_id, last_name and
\* room_number, where it has them, are strings or null
DecodesAsEvent(id) ==
    \/ outbox[id].payload.kind = "null"
    \/ /\ IsJsonObject(id)
       /\ \A t \in outbox[id].payload.m : t[1] \in EventFields => t[2] \in {"string", "null"}

OneReturnsNil ==
    /\ (\E id \in NotifyIds : Notification("r1", id)) \/ OneCommit("r1")
    /\ pc'["r1"] = "loop" /\ ret'["r1"] = "nil"
\* processUnprocessedEvents of r1 (startup or periodic) returns nil in this step
SweepReturnsNil == SweepCommit("r1") /\ pc'["r1"] = "loop" /\ ret'["r1"] = "nil"

\* C29 as stated: isHealthy is true after every processEventByID and every sweep that
\* returns nil.
C29_EverySuccessfulCycleSetsAlive ==
    [][(OneReturnsNil \/ SweepReturnsNil) => isHealthy'["r1"]]_vars

\* C29 amended: isHealthy is true after every processEventByID that returns nil, a
\* sweep that returns nil leaves it as it is, and nothing but a processEventByID that
\* returns nil sets it back to true.
C29_OnlyProcessedNotificationSetsAlive ==
    [][/\ OneReturnsNil => isHealthy'["r1"]
       /\ SweepReturnsNil => isHealthy'["r1"] = isHealthy["r1"]
       /\ (~isHealthy["r1"] /\ isHealthy'["r1"]) => OneReturnsNil]_vars

\* after a nil notification, a periodic sweep has updated a row and is at its commit
\* with isHealthy false
C29_Witness ==
    /\ pc["r1"] = "sweep" /\ tx["r1"].recs = <<>> /\ ~tx["r1"].aborted
    /\ tx["r1"].upd = {1} /\ ~isHealthy["r1"] /\ faults = 0

\* C30: a nil notification sets isHealthy to false and changes nothing else: no
\* transaction, no call of the publisher, lastProcessed, the rows, the breakers and the
\* last returned error as they were, and Start goes on in its loop.
C30_NilNotificationOnlyClearsAlive ==
    [][NilNotification("r1") =>
         /\ ~isHealthy'["r1"]
         /\ pc'["r1"] = "loop" /\ pc["r1"] = "loop"
         /\ tx' = tx /\ tx["r1"] = NoTx
         /\ attempts' = attempts /\ sent' = sent /\ published' = published
         /\ lastProcessed' = lastProcessed
         /\ outbox' = outbox /\ marks' = marks
         /\ dbCB' = dbCB /\ cb' = cb /\ ret' = ret
         /\ main' = main /\ exit' = exit]_vars

\* a nil notification has cleared isHealthy of a relay that has processed a row and
\* goes on waiting
C30_Witness ==
    /\ ~isHealthy["r1"] /\ pc["r1"] = "loop" /\ lastProcessed["r1"] = "recent"
    /\ main.at = "select" /\ exit = "none"
    /\ \E id \in Ids : outbox[id].processed /\ published[id] = 1

\* C31: after the ctx of Start is cancelled, no row is marked processed, by the sweep
\* in progress or otherwise; a sweep in progress at the cancel ends, and Start returns
\* the error of the cancelled ctx (for the sweeps whose rows are below the bound on
\* the calls of the publisher).
C31_CancelMidSweepRollsBack ==
    /\ [][Cancelled => (marks' = marks
                         /\ \A id \in Ids : outbox'[id].processed = outbox[id].processed)]_vars
    /\ []((Cancelled /\ pc["r1"] = "exited") => ret["r1"] = "canceled")
    /\ (Cancelled /\ InSweep /\ \A id \in Ids : attempts[id] < MaxAttempts)
          ~> (pc["r1"] = "exited" /\ ret["r1"] = "canceled")

\* Start has returned the error of the cancelled ctx after a sweep that published two
\* rows and marked none, without a failure of the database or the broker
C31_Witness ==
    /\ Cancelled /\ pc["r1"] = "exited" /\ ret["r1"] = "canceled" /\ faults = 0
    /\ Len(outbox) = 2
    /\ \A id \in Ids : published[id] = 1 /\ ~outbox[id].processed /\ marks[id] = 0

\* the rows a sweep leaves unprocessed when it marks the maxEventsPerBatch oldest
BeyondBatch ==
    {id \in Unprocessed : Cardinality({o \in Unprocessed : o < id}) >= maxEventsPerBatch}
\* the batch of a sweep is in ascending created_at order, and a row of it is published
\* when the older rows of the batch have been passed and the newer ones have not
BatchInOrder ==
    /\ [](InSweep => \A i, j \in 1..Len(tx["r1"].recs) :
                          i < j => tx["r1"].recs[i] < tx["r1"].recs[j])
    /\ [][InSweep => \A b \in Ids :
              attempts'[b] > attempts[b] =>
                 /\ b \in tx["r1"].held /\ b = SweepRow
                 /\ \A a \in tx["r1"].held :
                       /\ a < b => (a \in SweepPassed /\ (Matches(a) => attempts[a] >= 1))
                       /\ a > b => (a \notin SweepPassed /\ attempts[a] = 0)]_vars

Selectable == {id \in Ids : ~outbox[id].processed /\ ~LockedByOther("r1", id)}

\* C33: the batch of a sweep is the maxEventsPerBatch oldest of the unprocessed,
\* unlocked rows, all of them when there are no more than that; the sweep publishes
\* and marks no row outside its batch.
C33_SweepTakesOldestBatch ==
    /\ [][(pc["r1"] \in {"init", "loop"} /\ pc'["r1"] \in {"startup", "sweep"}) =>
             /\ tx'["r1"].held \subseteq Selectable
             /\ Cardinality(tx'["r1"].held) =
                   (IF Cardinality(Selectable) <= maxEventsPerBatch
                    THEN Cardinality(Selectable) ELSE maxEventsPerBatch)
             /\ \A a \in tx'["r1"].held, b \in Selectable \ tx'["r1"].held : a < b]_vars
    /\ [](InSweep => Cardinality(tx["r1"].held) <= maxEventsPerBatch)
    /\ [][InSweep => \A id \in Ids \ tx["r1"].held :
                         /\ attempts'[id] = attempts[id] /\ published'[id] = published[id]
                         /\ outbox'[id] = outbox[id] /\ marks'[id] = marks[id]]_vars

\* a sweep over a backlog of one row more than maxEventsPerBatch is at its commit with
\* maxEventsPerBatch rows updated and the newest row untouched
C33_Witness ==
    /\ InSweep /\ tx["r1"].recs = <<>> /\ ~tx["r1"].aborted
    /\ tx["r1"].upd = 1..maxEventsPerBatch
    /\ Len(outbox) = Backlog /\ Backlog \in Unprocessed /\ attempts[Backlog] = 0

\* the worker stores to r.isHealthy in this step
StoresIsHealthy == NilNotification("r1") \/ OneReturnsNil

\* C34: no store of the worker to isHealthy falls between the load of isHealthy by
\* the handler of GET /health and the end of that read.
C34_HealthReadExcludesWorkerWrite ==
    [][health[2] \in ReadingStatuses => ~StoresIsHealthy]_vars

\* the breaker after one more probe through the half-open breaker b has succeeded
AfterProbe(b) == IF b.succ = MaxRequests - 1 THEN CBClosed ELSE [b EXCEPT !.succ = @ + 1]

\* C35: an open breaker changes only by its Timeout, to half-open, and a breaker becomes
\* half-open in no other way; a half-open breaker has let through fewer than MaxRequests
\* (3) probes that succeeded, so that it admits at most 3 probes; a probe that fails
\* opens it, a probe that succeeds is counted, and it closes with the success of the
\* third probe and in no other way.
C35_HalfOpenProbes ==
    /\ [](\A k \in Breakers : BreakerOf(k).state = "half-open" => BreakerOf(k).succ < MaxRequests)
    /\ [][\A k \in Breakers :
            LET b == BreakerOf(k)
                n == BreakerOfNext(k)
            IN /\ (b.state = "open" /\ n # b)
                     => (n = CBHalfOpen /\ (CBTimeout("r1") \/ PublisherCBTimeout("r1")))
               /\ (b.state # "half-open" /\ n.state = "half-open") => b.state = "open"
               /\ (b.state = "half-open" /\ n # b) => (n = CBOpen \/ n = AfterProbe(b))
               /\ (b.state = "half-open" /\ n.state = "closed") => b.succ = MaxRequests - 1]_vars
    /\ [][(dbCB["r1"].state = "half-open" /\ pc'["r1"] = "loop"
              /\ (pc["r1"] # "loop" \/ CallBegins("r1")))
            => dbCB'["r1"] = IF ret'["r1"] = "nil" THEN AfterProbe(dbCB["r1"]) ELSE CBOpen]_vars
    /\ [][\A id \in Ids : (cb["r1"].state = "half-open" /\ attempts'[id] # attempts[id])
            => /\ sent'[id] = sent[id] + 1
               /\ cb'["r1"] = IF published'[id] = published[id] + 1
                              THEN AfterProbe(cb["r1"]) ELSE CBOpen]_vars

\* the third probe through the half-open DB breaker is in flight after two that
\* succeeded, and the publisher's breaker is half-open with one probe that succeeded
C35_Witness ==
    /\ dbCB["r1"].state = "half-open" /\ dbCB["r1"].succ = MaxRequests - 1
    /\ pc["r1"] = "one"
    /\ cb["r1"].state = "half-open" /\ cb["r1"].succ = 1

\* C36: a call of the broker that fails, in process_one or in a sweep, is not counted
\* by r.dbCB as a failure and does not open it.
C36_PublishFailureNotCountedByDbBreaker ==
    [][\A id \in Ids :
         (sent'[id] = sent[id] + 1 /\ published'[id] = published[id])
           => /\ dbCB'["r1"].fails <= dbCB["r1"].fails
              /\ dbCB'["r1"].state = "open" => dbCB["r1"].state = "open"]_vars

\* the Redis check of the request q cannot succeed: redisCB is open, or Redis fails
RedisCheckFails(q) == ~CBAllows(redisCB) \/ faults' # faults

\* C37 as stated: while redisCB is open, or when the Redis check fails, every request is
\* answered 503 without next.
C37_Rejects503WhenRedisUnavailable ==
    [][\A q \in Requests :
         (RequestOf(q) /\ RedisCheckFails(q))
           => (response'.code = StatusServiceUnavailable /\ ~response'.next)]_vars

\* C37 amended: while redisCB is open, or when the Redis check fails, no request reaches
\* next, whatever its token and role; a request whose token passes jwt.Parse is answered
\* 503, and one without a header or with a token that does not pass is answered 401
\* before the blacklist check. While redisCB is open, Redis is not called.
C37_FailsClosedWhenRedisUnavailable ==
    /\ [][\A q \in Requests :
            (RequestOf(q) /\ RedisCheckFails(q))
              => /\ ~response'.next
                 /\ response'.code = IF q[2] # "none" /\ ParseValid(q[2], q[3])
                                     THEN StatusServiceUnavailable ELSE StatusUnauthorized]_vars
    /\ [][\A q \in Requests :
            (RequestOf(q) /\ ~CBAllows(redisCB)) => (redisCB' = redisCB /\ faults' = faults)]_vars

\* a valid token of an ADMIN that is not revoked is answered 503 where ADMIN is
\* allowed, redisCB being open
C37_Witness ==
    /\ redisCB.state = "open"
    /\ response.header = "bearer" /\ response.code = StatusServiceUnavailable /\ ~response.next
    /\ response.token \in 1..Len(jwts) /\ jwts[response.token].role = "ADMIN"
    /\ response.token \notin blacklist /\ response.token \notin expiredJwts

\* C38: the worker of a relay whose publisher is the nil broker of a failed
\* NewRabbitMQBroker never calls PublishBabyCreated.
C38_NilBrokerNeverPublishedTo ==
    cb["r1"] = NoBroker => \A id \in RowIds : attempts[id] = 0

\* C39: once DischargeParent has returned nil for a parent and set the status
\* Discharged, after which Authenticate issues the parent no token, no request with a
\* token of that parent reaches next, whichever login issued the token.
C39_NoTokenOfDischargedParentAccepted ==
    [][\A q \in Requests :
         (/\ RequestOf(q)
          /\ q[3] \in Jtis
          /\ jwts[q[3]].sub \in discharged
          /\ status[jwts[q[3]].sub] = ParentDischarged)
           => ~response'.next]_vars

====
